---- MODULE Spec2Model ----
(***************************************************************************)
(* Model of the merge transformation (model/transform/merge) and of the    *)
(* PropertySelection value type of substance.                              *)
(*                                                                         *)
(* A document is a store of nodes (doc), a container lists the visible     *)
(* nodes in order (containerNodes), annotations are anchored on text       *)
(* properties.  merge(tx, args) resolves the neighbouring address, picks a *)
(* merge strategy and, for the built-in text merge, performs a fixed       *)
(* sequence of calls on the transaction; every such call is one step of    *)
(* the model.                                                              *)
(***************************************************************************)
EXTENDS Integers, Sequences, FiniteSets, TLC

VARIABLES
  doc,             \* tx: stored nodes, id -> [id, type, content]
  containerNodes,  \* container: ids of the visible nodes, in order
  annotations,     \* annotations: [id, path, startOffset, endOffset]
  pc,              \* "idle" | "merging" | "returned" | "threw"
  args,            \* the args object as the caller passed it
  ret,             \* the args object merge returned
  mergeTrafo,      \* the strategy _mergeComponents invoked
  todo,            \* calls _mergeTextNodes has still to make
  calls,           \* calls made on tx / container / helpers in this merge
  reported,        \* console.info messages of this merge
  pre,             \* document state when merge was called
  sel,             \* PropertySelection: this
  otherSel,        \* PropertySelection: the other operand
  selOp,           \* the PropertySelection method applied last
  selStrict,       \* its strict flag
  selResult,       \* its boolean result
  selValue,        \* the object it returned or the error it threw
  selJSON,         \* the record passed to fromJSON
  selDoc,          \* the document sel is attached to, or "null"
  surface,         \* DOMSelection: the child elements of the surface element
  wSel,            \* the window's selection
  domOp,           \* the DOMSelection method applied last
  domOptions,      \* its options
  domResult        \* the value it returned or the error it threw

mergeVars == <<doc, containerNodes, annotations, pc, args, ret, mergeTrafo,
               todo, calls, reported, pre>>
selVars == <<sel, otherSel, selOp, selStrict, selResult, selValue, selJSON,
            selDoc>>
domVars == <<surface, wSel, domOp, domOptions, domResult>>
vars == <<doc, containerNodes, annotations, pc, args, ret, mergeTrafo,
          todo, calls, reported, pre, sel, otherSel, selOp, selStrict, selResult,
          selValue, selJSON, selDoc, surface, wSel, domOp, domOptions, domResult>>

(***************************************************************************)
(* Bounds of the model                                                     *)
(***************************************************************************)
MaxNodes == 2
MaxTextLen == 2
MaxOffset == 3

(***************************************************************************)
(* JavaScript values                                                       *)
(***************************************************************************)
\* `undefined` where a selection is expected
undefined == [type |-> "undefined"]
\* `undefined` where a string is expected
undefinedString == "undefined"
\* an object without keys
emptyObject == <<>>

\* obj[key], undefined when the key is missing
hasOwnProperty(obj, key) == key \in DOMAIN obj

\* lodash extend({}, a, b): the keys of b override those of a
extend(a, b) == b @@ a

Min(a, b) == IF a <= b THEN a ELSE b
Max(a, b) == IF a >= b THEN a ELSE b


(***************************************************************************)
(* Nodes                                                                   *)
(***************************************************************************)
NodeTypes == {"paragraph", "figure"}
\* the types that inherit from the text node
TextTypes == {"paragraph"}

\* node.isInstanceOf('text')
isInstanceOfText(node) == node.type \in TextTypes
\* node.getTextPath()
getTextPath(node) == <<node.id, "content">>
\* node.getText()
getText(node) == node.content

\* the addressable properties of a node, in order: a text node has one
\* component, a figure is a composite node with two
getAddressablePropertyNames(type) ==
  IF type \in TextTypes THEN <<"content">> ELSE <<"title", "caption">>

\* the text a fresh node carries: len characters that name the node and
\* the position, so that texts of different nodes differ
TextOf(id, len) == [k \in 1..len |-> 10 * id + k]

(***************************************************************************)
(* Container addressing                                                    *)
(***************************************************************************)
\* no address: what getNextAddress / getPreviousAddress answer at a boundary
noAddress == <<>>

\* container.getPosition(id): 1-based position of a visible node
getPosition(nodes, id) == CHOOSE i \in 1..Len(nodes) : nodes[i] = id

\* container.getChildAt(pos)
getChildAt(d, nodes, pos) == d[nodes[pos]]

\* index of a property among the addressable properties of a type
propertyIndex(type, name) ==
  CHOOSE i \in 1..Len(getAddressablePropertyNames(type)) :
    getAddressablePropertyNames(type)[i] = name

\* container.getAddress(path): <<node position, component position>>
getAddress(d, nodes, path) ==
  <<getPosition(nodes, path[1]), propertyIndex(d[path[1]].type, path[2])>>

\* container.getNextAddress(address)
getNextAddress(d, nodes, address) ==
  LET node == getChildAt(d, nodes, address[1])
  IN  IF address[2] < Len(getAddressablePropertyNames(node.type))
        THEN <<address[1], address[2] + 1>>
        ELSE IF address[1] < Len(nodes)
               THEN <<address[1] + 1, 1>>
               ELSE noAddress

\* container.getPreviousAddress(address)
getPreviousAddress(d, nodes, address) ==
  IF address[2] > 1
    THEN <<address[1], address[2] - 1>>
    ELSE IF address[1] > 1
           THEN <<address[1] - 1,
                  Len(getAddressablePropertyNames(
                        getChildAt(d, nodes, address[1] - 1).type))>>
           ELSE noAddress

\* container.hide(id): the node leaves the visible order
hide(nodes, id) == SelectSeq(nodes, LAMBDA n : n # id)

(***************************************************************************)
(* Transaction document                                                    *)
(***************************************************************************)
\* tx.update(path, { insert: { offset, value } })
txUpdate(d, path, offset, value) ==
  [d EXCEPT ![path[1]].content =
     SubSeq(@, 1, offset) \o value \o SubSeq(@, offset + 1, Len(@))]

\* tx.delete(id)
txDelete(d, id) == [n \in (DOMAIN d) \ {id} |-> d[n]]

\* annotationHelpers.transferAnnotations(tx, path, offset, newPath, newOffset):
\* every annotation of path that starts at or after offset moves to newPath,
\* shifted by newOffset - offset; one that spans offset is cut at offset
transferAnnotations(annos, path, offset, newPath, newOffset) ==
  { IF a.path = path /\ a.startOffset >= offset
      THEN [a EXCEPT !.path = newPath,
                     !.startOffset = newOffset + a.startOffset - offset,
                     !.endOffset = newOffset + a.endOffset - offset]
      ELSE IF a.path = path /\ a.endOffset > offset
             THEN [a EXCEPT !.endOffset = offset]
             ELSE a
    : a \in annos }

(***************************************************************************)
(* PropertySelection                                                       *)
(***************************************************************************)
\* new PropertySelection(path, startOffset, endOffset, reverse, surfaceId)
PropertySelection(path, startOffset, endOffset, reverse, surfaceId) ==
  [type |-> "property", path |-> path, startOffset |-> startOffset,
   endOffset |-> endOffset, reverse |-> reverse, surfaceId |-> surfaceId]

\* faulty variant: the reverse flag is not written
toJSON_withoutReverse(s) ==
  [type |-> "property", path |-> s.path, startOffset |-> s.startOffset,
   endOffset |-> s.endOffset, surfaceId |-> s.surfaceId]

\* sel.toJSON()
toJSON(s) ==
  [type |-> "property", path |-> s.path, startOffset |-> s.startOffset,
   endOffset |-> s.endOffset, reverse |-> s.reverse, surfaceId |-> s.surfaceId]

\* PropertySelection.fromJSON(json)
fromJSON(json) ==
  PropertySelection(
    json.path,
    json.startOffset,
    IF hasOwnProperty(json, "endOffset") THEN json.endOffset ELSE json.startOffset,
    IF hasOwnProperty(json, "reverse") THEN json.reverse ELSE FALSE,
    IF hasOwnProperty(json, "surfaceId") THEN json.surfaceId ELSE undefinedString)

\* tx.createSelection(json) for a json of type 'property'
createSelection(json) == fromJSON(json)

\* the null selection
nullSelection == [type |-> "null"]

\* sel.isNull(), sel.isContainerSelection()
isNull(s) == s.type = "null"
isContainerSelection(s) == s.type = "container"

\* sel.isCollapsed()
isCollapsed(s) == s.startOffset = s.endOffset

\* lodash isEqual on paths
isEqual(path, otherPath) == path = otherPath

\* sel.start, sel.end: the coordinate adapters read the selection's fields
start(s) == [path |-> s.path, offset |-> s.startOffset]
end(s) == [path |-> s.path, offset |-> s.endOffset]

\* Coordinate.prototype.equals
coordinateEquals(coor, otherCoor) ==
  isEqual(coor.path, otherCoor.path) /\ coor.offset = otherCoor.offset

\* Selection.prototype.equals: same variant and same surface
selectionEquals(this, other) ==
  this.type = other.type /\ this.surfaceId = other.surfaceId

\* this.equals(other)
equals(this, other) ==
  /\ selectionEquals(this, other)
  /\ coordinateEquals(start(this), start(other))
  /\ coordinateEquals(end(this), end(other))

\* this.isInsideOf(other, strict); a container selection is never passed
isInsideOf(this, other, strict) ==
  IF isNull(other) THEN FALSE
  ELSE IF strict
    THEN /\ isEqual(this.path, other.path)
         /\ this.startOffset > other.startOffset
         /\ this.endOffset < other.endOffset
    ELSE /\ isEqual(this.path, other.path)
         /\ this.startOffset >= other.startOffset
         /\ this.endOffset <= other.endOffset

\* faulty variant: the strict test accepts an equal end offset
contains_equalEnd(this, other, strict) ==
  IF isNull(other) THEN FALSE
  ELSE IF strict
    THEN /\ isEqual(this.path, other.path)
         /\ this.startOffset < other.startOffset
         /\ this.endOffset >= other.endOffset
    ELSE /\ isEqual(this.path, other.path)
         /\ this.startOffset <= other.startOffset
         /\ this.endOffset >= other.endOffset

\* this.contains(other, strict); a container selection is never passed
contains(this, other, strict) ==
  IF isNull(other) THEN FALSE
  ELSE IF strict
    THEN /\ isEqual(this.path, other.path)
         /\ this.startOffset < other.startOffset
         /\ this.endOffset > other.endOffset
    ELSE /\ isEqual(this.path, other.path)
         /\ this.startOffset <= other.startOffset
         /\ this.endOffset >= other.endOffset

\* faulty variant: the strict comparison is made whatever the flag
overlaps_alwaysStrict(this, other, strict) ==
  IF isNull(other) THEN FALSE
  ELSE IF ~isEqual(this.path, other.path) THEN FALSE
  ELSE ~(this.startOffset >= other.endOffset \/ this.endOffset <= other.startOffset)

\* faulty variant: only the start of this is compared with the end of other
overlaps_oneSided(this, other, strict) ==
  IF isNull(other) THEN FALSE
  ELSE IF ~isEqual(this.path, other.path) THEN FALSE
  ELSE IF strict
    THEN ~(this.startOffset >= other.endOffset)
    ELSE ~(this.startOffset > other.endOffset)

\* this.overlaps(other, strict); a container selection is never passed
overlaps(this, other, strict) ==
  IF isNull(other) THEN FALSE
  ELSE IF ~isEqual(this.path, other.path) THEN FALSE
  ELSE IF strict
    THEN ~(this.startOffset >= other.endOffset \/ this.endOffset <= other.startOffset)
    ELSE ~(this.startOffset > other.endOffset \/ this.endOffset < other.startOffset)

\* a number, as a value that can be told from undefined
number(n) == [type |-> "number", value |-> n]

\* lodash isNumber
isNumber(v) == v.type = "number"

\* throw new Error(message)
Error(message) == [type |-> "error", message |-> message]

\* the constructor's error
invalidArguments ==
  Error("Invalid arguments: path and startOffset are mandatory")

\* the error of expand and truncate
differentProperty ==
  Error("Can not expand PropertySelection to a different property.")

\* this.createWithNewRange(startOffset, endOffset); the constructor throws
\* when startOffset is not a number
createWithNewRange(this, startOffset, endOffset) ==
  IF ~isNumber(startOffset) THEN invalidArguments
  ELSE PropertySelection(this.path, startOffset.value, endOffset.value,
                         FALSE, this.surfaceId)

\* faulty variant: the common part of both selections is returned
expand_intersect(this, other) ==
  IF isNull(other) THEN this
  ELSE IF ~isEqual(this.path, other.path) THEN differentProperty
  ELSE createWithNewRange(this,
         number(Max(this.startOffset, other.startOffset)),
         number(Min(this.endOffset, other.endOffset)))

\* this.expand(other); a container selection is never passed
expand(this, other) ==
  IF isNull(other) THEN this
  ELSE IF ~isEqual(this.path, other.path) THEN differentProperty
  ELSE createWithNewRange(this,
         number(Min(this.startOffset, other.startOffset)),
         number(Max(this.endOffset, other.endOffset)))

\* sel.startPath, sel.endPath
startPath(s) == s.path
endPath(s) == s.path

\* faulty variant: a shared end is looked for before a shared start
truncate_endFirst(this, other) ==
  IF isNull(other) THEN this
  ELSE IF \/ ~isEqual(startPath(this), startPath(other))
          \/ ~isEqual(endPath(this), endPath(other))
    THEN differentProperty
  ELSE IF this.endOffset = other.endOffset
    THEN createWithNewRange(this, number(this.startOffset), number(other.startOffset))
  ELSE IF this.startOffset = other.startOffset
    THEN createWithNewRange(this, number(other.endOffset), number(this.endOffset))
  ELSE createWithNewRange(this, undefined, undefined)

\* faulty variant: without a shared boundary this is returned as it is
truncate_unchanged(this, other) ==
  IF isNull(other) THEN this
  ELSE IF \/ ~isEqual(startPath(this), startPath(other))
          \/ ~isEqual(endPath(this), endPath(other))
    THEN differentProperty
  ELSE IF this.startOffset = other.startOffset
    THEN createWithNewRange(this, number(other.endOffset), number(this.endOffset))
  ELSE IF this.endOffset = other.endOffset
    THEN createWithNewRange(this, number(this.startOffset), number(other.startOffset))
  ELSE this

\* this.truncate(other); newStartOffset and newEndOffset stay undefined when
\* no boundary is shared
truncate(this, other) ==
  IF isNull(other) THEN this
  ELSE IF \/ ~isEqual(startPath(this), startPath(other))
          \/ ~isEqual(endPath(this), endPath(other))
    THEN differentProperty
  ELSE IF this.startOffset = other.startOffset
    THEN createWithNewRange(this, number(other.endOffset), number(this.endOffset))
  ELSE IF this.endOffset = other.endOffset
    THEN createWithNewRange(this, number(this.startOffset), number(other.startOffset))
  ELSE createWithNewRange(this, undefined, undefined)

\* this.collapse(direction)
collapse(this, direction) ==
  IF direction = "left"
    THEN createWithNewRange(this, number(this.startOffset), number(this.startOffset))
    ELSE createWithNewRange(this, number(this.endOffset), number(this.endOffset))

\* new Selection.Cursor(path, offset), new Selection.Fragment(path, start, end)
Cursor(path, offset) == [type |-> "cursor", path |-> path, offset |-> offset]
Fragment(path, startOffset, endOffset) ==
  [type |-> "fragment", path |-> path, startOffset |-> startOffset,
   endOffset |-> endOffset]

\* this.getFragments(): an array of one element
getFragments(this) ==
  [type |-> "array",
   items |-> << IF isCollapsed(this)
                  THEN Cursor(this.path, this.startOffset)
                  ELSE Fragment(this.path, this.startOffset, this.endOffset) >>]

\* the adapters the constructor makes: start and end
CoordinateAdapter(pathProperty, offsetProperty) ==
  [pathProp |-> pathProperty, offsetProp |-> offsetProperty]
adapterOf(name) ==
  IF name = "start" THEN CoordinateAdapter("path", "startOffset")
  ELSE CoordinateAdapter("path", "endOffset")

\* faulty variant: the adapter drops the offset assigned to it
setOffset_ignored(s, adapter, offset) == s

\* adapter.offset = offset, adapter.path = path: written to the selection
setOffset(s, adapter, offset) == [s EXCEPT ![adapter.offsetProp] = offset]
setPath(s, adapter, path) == [s EXCEPT ![adapter.pathProp] = path]

\* the error of the setters of start, end, startPath and endPath
immutable == Error("immutable.")


(***************************************************************************)
(* Editing behavior: the registered mergers                                *)
(***************************************************************************)
\* behavior.canMerge(firstType, secondType)
canMerge(behavior, firstType, secondType) ==
  <<firstType, secondType>> \in behavior.mergers
\* behavior.getMerger(firstType, secondType)
getMerger(behavior, firstType, secondType) ==
  [kind |-> "merger", key |-> <<firstType, secondType>>]
\* behavior.canMergeComponents(type)
canMergeComponents(behavior, type) == type \in behavior.componentMergers
\* behavior.getComponentMerger(type)
getComponentMerger(behavior, type) == [kind |-> "componentMerger", key |-> <<type>>]

\* a registered merger is the caller's code: it is taken to leave the
\* document alone and to answer its args with a selection of its own
registeredMerger(trafo, a) ==
  extend(a, [selection |-> [type |-> "custom", by |-> trafo]])

\* the built-in text merge as a strategy
mergeTextNodesTrafo == [kind |-> "mergeTextNodes"]
\* _getNodeMerger answered null
nullTrafo == [kind |-> "null"]
\* _mergeComponents found nothing to call for two components of one node
noTrafo == [kind |-> "none"]

(***************************************************************************)
(* merge                                                                   *)
(***************************************************************************)
\* args.editingBehavior, args.selection: undefined when the key is missing
editingBehaviorOf(a) ==
  IF hasOwnProperty(a, "editingBehavior") THEN a.editingBehavior ELSE undefined
selectionOf(a) ==
  IF hasOwnProperty(a, "selection") THEN a.selection ELSE undefined

\* args.containerId, args.direction: undefined when the key is missing
containerIdOf(a) ==
  IF hasOwnProperty(a, "containerId") THEN a.containerId ELSE undefinedString
directionOf(a) ==
  IF hasOwnProperty(a, "direction") THEN a.direction ELSE undefinedString

\* a string that is falsy: undefined or empty
falsy(string) == string = undefinedString \/ string = ""

\* faulty variant: the direction is not checked
insufficientArguments_noDirection(a) ==
  \/ falsy(containerIdOf(a))
  \/ ~hasOwnProperty(a, "path")

\* !containerId || !path || !direction
insufficientArguments(a) ==
  \/ falsy(containerIdOf(a))
  \/ ~hasOwnProperty(a, "path")
  \/ falsy(directionOf(a))

\* faulty variant: direction 'left' passes the pair in the order
\* (address, previousAdress)
addressPair_leftSwapped(d, nodes, a) ==
  LET address == getAddress(d, nodes, a.path)
  IN  IF directionOf(a) = "right"
        THEN LET nextAddress == getNextAddress(d, nodes, address)
             IN  IF nextAddress # noAddress THEN <<address, nextAddress>> ELSE noAddress
        ELSE IF directionOf(a) = "left"
          THEN LET previousAdress == getPreviousAddress(d, nodes, address)
               IN  IF previousAdress # noAddress THEN <<address, previousAdress>>
                                                 ELSE noAddress
          ELSE noAddress

\* faulty variant: every direction other than 'right' is taken as 'left'
addressPair_elseLeft(d, nodes, a) ==
  LET address == getAddress(d, nodes, a.path)
  IN  IF directionOf(a) = "right"
        THEN LET nextAddress == getNextAddress(d, nodes, address)
             IN  IF nextAddress # noAddress
                   THEN <<address, nextAddress>>
                   ELSE noAddress
        ELSE LET previousAdress == getPreviousAddress(d, nodes, address)
             IN  IF previousAdress # noAddress
                   THEN <<previousAdress, address>>
                   ELSE noAddress

\* the pair (firstAddress, secondAddress) merge hands to _mergeComponents;
\* noAddress when there is no neighbour or the direction is not supported
addressPair(d, nodes, a) ==
  LET address == getAddress(d, nodes, a.path)
  IN  IF directionOf(a) = "right"
        THEN LET nextAddress == getNextAddress(d, nodes, address)
             IN  IF nextAddress # noAddress
                   THEN <<address, nextAddress>>
                   ELSE noAddress
        ELSE IF directionOf(a) = "left"
               THEN LET previousAdress == getPreviousAddress(d, nodes, address)
                    IN  IF previousAdress # noAddress
                          THEN <<previousAdress, address>>
                          ELSE noAddress
               ELSE noAddress

\* faulty variant: the built-in text merge is tried before the registered mergers
getNodeMerger_builtInFirst(behavior, node, otherNode) ==
  IF isInstanceOfText(node) /\ isInstanceOfText(otherNode)
    THEN mergeTextNodesTrafo
  ELSE IF behavior # undefined /\ canMerge(behavior, node.type, otherNode.type)
    THEN getMerger(behavior, node.type, otherNode.type)
  ELSE IF /\ behavior # undefined
          /\ isInstanceOfText(node)
          /\ canMerge(behavior, "textish", otherNode.type)
    THEN getMerger(behavior, "textish", otherNode.type)
  ELSE IF /\ behavior # undefined
          /\ isInstanceOfText(otherNode)
          /\ canMerge(behavior, node.type, "textish")
    THEN getMerger(behavior, node.type, "textish")
  ELSE nullTrafo

\* faulty variant: the built-in text merge is taken when either node is textish
getNodeMerger_eitherText(behavior, node, otherNode) ==
  IF behavior # undefined /\ canMerge(behavior, node.type, otherNode.type)
    THEN getMerger(behavior, node.type, otherNode.type)
  ELSE IF /\ behavior # undefined
          /\ isInstanceOfText(node)
          /\ canMerge(behavior, "textish", otherNode.type)
    THEN getMerger(behavior, "textish", otherNode.type)
  ELSE IF /\ behavior # undefined
          /\ isInstanceOfText(otherNode)
          /\ canMerge(behavior, node.type, "textish")
    THEN getMerger(behavior, node.type, "textish")
  ELSE IF isInstanceOfText(node) \/ isInstanceOfText(otherNode)
    THEN mergeTextNodesTrafo
  ELSE nullTrafo

\* _getNodeMerger(behavior, node, otherNode)
getNodeMerger(behavior, node, otherNode) ==
  IF behavior # undefined /\ canMerge(behavior, node.type, otherNode.type)
    THEN getMerger(behavior, node.type, otherNode.type)
  ELSE IF /\ behavior # undefined
          /\ isInstanceOfText(node)
          /\ canMerge(behavior, "textish", otherNode.type)
    THEN getMerger(behavior, "textish", otherNode.type)
  ELSE IF /\ behavior # undefined
          /\ isInstanceOfText(otherNode)
          /\ canMerge(behavior, node.type, "textish")
    THEN getMerger(behavior, node.type, "textish")
  ELSE IF isInstanceOfText(node) /\ isInstanceOfText(otherNode)
    THEN mergeTextNodesTrafo
  ELSE nullTrafo

\* the strategy _mergeComponents calls for args a (firstAddress and
\* secondAddress set)
mergeComponents(d, nodes, a) ==
  LET firstNode == getChildAt(d, nodes, a.firstAddress[1])
      secondNode == getChildAt(d, nodes, a.secondAddress[1])
      behavior == editingBehaviorOf(a)
  IN  IF firstNode = secondNode
        THEN IF behavior # undefined /\ canMergeComponents(behavior, firstNode.type)
               THEN getComponentMerger(behavior, firstNode.type)
               ELSE noTrafo
        ELSE getNodeMerger(behavior, firstNode, secondNode)

\* the calls _mergeTextNodes can make on tx, the container and the helpers
updateCall(path, offset, value) ==
  [op |-> "update", path |-> path, offset |-> offset, value |-> value]
transferAnnotationsCall(path, offset, newPath, newOffset) ==
  [op |-> "transferAnnotations", path |-> path, offset |-> offset,
   newPath |-> newPath, newOffset |-> newOffset]
hideCall(id) == [op |-> "hide", id |-> id]
deleteCall(id) == [op |-> "delete", id |-> id]
createSelectionCall(path, startOffset) ==
  [op |-> "createSelection",
   json |-> [type |-> "property", path |-> path, startOffset |-> startOffset]]

\* faulty variant: the second text is inserted at the start of the first text
mergeTextNodes_prepend(a) ==
  LET firstPath == getTextPath(a.first)
      firstLength == Len(getText(a.first))
      secondPath == getTextPath(a.second)
  IN  IF firstLength = 0
        THEN << hideCall(firstPath[1]), deleteCall(firstPath[1]),
                createSelectionCall(secondPath, 0) >>
        ELSE << updateCall(firstPath, 0, getText(a.second)),
                transferAnnotationsCall(secondPath, 0, firstPath, firstLength),
                hideCall(secondPath[1]), deleteCall(secondPath[1]),
                createSelectionCall(firstPath, firstLength) >>

\* faulty variant: an empty first node is kept and the second node removed
mergeTextNodes_removeSecond(a) ==
  LET firstPath == getTextPath(a.first)
      firstLength == Len(getText(a.first))
      secondPath == getTextPath(a.second)
  IN  IF firstLength = 0
        THEN << hideCall(secondPath[1]), deleteCall(secondPath[1]),
                createSelectionCall(secondPath, 0) >>
        ELSE << updateCall(firstPath, firstLength, getText(a.second)),
                transferAnnotationsCall(secondPath, 0, firstPath, firstLength),
                hideCall(secondPath[1]), deleteCall(secondPath[1]),
                createSelectionCall(firstPath, firstLength) >>

\* faulty variant: the annotations are transferred without the shift by firstLength
mergeTextNodes_unshifted(a) ==
  LET firstPath == getTextPath(a.first)
      firstLength == Len(getText(a.first))
      secondPath == getTextPath(a.second)
  IN  IF firstLength = 0
        THEN << hideCall(firstPath[1]), deleteCall(firstPath[1]),
                createSelectionCall(secondPath, 0) >>
        ELSE << updateCall(firstPath, firstLength, getText(a.second)),
                transferAnnotationsCall(secondPath, 0, firstPath, 0),
                hideCall(secondPath[1]), deleteCall(secondPath[1]),
                createSelectionCall(firstPath, firstLength) >>

\* faulty variant: the removed node is deleted before it is hidden
mergeTextNodes_deleteFirst(a) ==
  LET firstPath == getTextPath(a.first)
      firstLength == Len(getText(a.first))
      secondPath == getTextPath(a.second)
  IN  IF firstLength = 0
        THEN << deleteCall(firstPath[1]), hideCall(firstPath[1]),
                createSelectionCall(secondPath, 0) >>
        ELSE << updateCall(firstPath, firstLength, getText(a.second)),
                transferAnnotationsCall(secondPath, 0, firstPath, firstLength),
                deleteCall(secondPath[1]), hideCall(secondPath[1]),
                createSelectionCall(firstPath, firstLength) >>

\* the calls _mergeTextNodes makes, in order, for args a (first and second set)
mergeTextNodes(a) ==
  LET first == a.first
      second == a.second
      firstPath == getTextPath(first)
      firstText == getText(first)
      firstLength == Len(firstText)
      secondPath == getTextPath(second)
      secondText == getText(second)
  IN  IF firstLength = 0
        THEN << hideCall(firstPath[1]),
                deleteCall(firstPath[1]),
                createSelectionCall(secondPath, 0) >>
        ELSE << updateCall(firstPath, firstLength, secondText),
                transferAnnotationsCall(secondPath, 0, firstPath, firstLength),
                hideCall(secondPath[1]),
                deleteCall(secondPath[1]),
                createSelectionCall(firstPath, firstLength) >>

\* faulty variant: the returned args lose the selection when the strategy
\* answers none of its own making
returnArgs_cleared(a, tmp) ==
  extend(a, [selection |-> IF selectionOf(tmp) = selectionOf(a)
                             THEN undefined ELSE selectionOf(tmp)])

\* args.selection = tmp.selection; return args
returnArgs(a, tmp) == extend(a, [selection |-> selectionOf(tmp)])


(***************************************************************************)
(* The merge call and the steps of the built-in text merge                 *)
(***************************************************************************)
\* merge was not called, or threw before _mergeComponents
notCalled == [kind |-> "notCalled"]

\* console.info("No merge behavior defined for %s <- %s", ...)
consoleInfo(trafo, firstNode, secondNode) ==
  IF trafo = nullTrafo THEN << <<firstNode.type, secondNode.type>> >> ELSE <<>>

\* merge(tx, a) up to the first call that changes the document
Merge(a) ==
  /\ pc = "idle"
  /\ args' = a
  /\ calls' = <<>>
  /\ pre' = [doc |-> doc, containerNodes |-> containerNodes,
             annotations |-> annotations]
  /\ UNCHANGED <<doc, containerNodes, annotations>>
  /\ UNCHANGED <<selVars, domVars>>
  /\ IF insufficientArguments(a)
       THEN /\ pc' = "threw"
            /\ ret' = undefined
            /\ mergeTrafo' = notCalled
            /\ todo' = <<>>
            /\ reported' = <<>>
       ELSE LET pair == addressPair(doc, containerNodes, a)
            IN  IF pair = noAddress
                  THEN /\ pc' = "returned"
                       /\ ret' = a
                       /\ mergeTrafo' = notCalled
                       /\ todo' = <<>>
                       /\ reported' = <<>>
                  ELSE LET ext == extend(a, [containerId |-> containerIdOf(a),
                                             firstAddress |-> pair[1],
                                             secondAddress |-> pair[2]])
                           firstNode == getChildAt(doc, containerNodes, pair[1][1])
                           secondNode == getChildAt(doc, containerNodes, pair[2][1])
                           trafo == mergeComponents(doc, containerNodes, ext)
                       IN  /\ mergeTrafo' = trafo
                           /\ reported' = consoleInfo(trafo, firstNode, secondNode)
                           /\ CASE trafo.kind = "mergeTextNodes" ->
                                     /\ pc' = "merging"
                                     /\ ret' = undefined
                                     /\ todo' = mergeTextNodes(
                                          extend(ext, [containerId |-> ext.containerId,
                                                       first |-> firstNode,
                                                       second |-> secondNode]))
                                [] trafo.kind = "merger" ->
                                     /\ pc' = "returned"
                                     /\ ret' = returnArgs(a, registeredMerger(trafo,
                                          extend(ext, [containerId |-> ext.containerId,
                                                       first |-> firstNode,
                                                       second |-> secondNode])))
                                     /\ todo' = <<>>
                                [] trafo.kind = "componentMerger" ->
                                     /\ pc' = "returned"
                                     /\ ret' = returnArgs(a, registeredMerger(trafo,
                                          extend(ext, [node |-> firstNode,
                                                       firstAddress |-> pair[1],
                                                       secondAddress |-> pair[2]])))
                                     /\ todo' = <<>>
                                [] OTHER ->
                                     /\ pc' = "returned"
                                     /\ ret' = returnArgs(a, ext)
                                     /\ todo' = <<>>

\* the next call of _mergeTextNodes is op
nextCall(op) == pc = "merging" /\ todo # <<>> /\ Head(todo).op = op

\* tx.update(firstPath, { insert: { offset: firstLength, value: secondText } })
TxUpdate ==
  /\ nextCall("update")
  /\ doc' = txUpdate(doc, Head(todo).path, Head(todo).offset, Head(todo).value)
  /\ todo' = Tail(todo)
  /\ calls' = Append(calls, Head(todo))
  /\ UNCHANGED <<containerNodes, annotations, pc, args, ret, mergeTrafo, reported, pre>>
  /\ UNCHANGED <<selVars, domVars>>

\* annotationHelpers.transferAnnotations(tx, secondPath, 0, firstPath, firstLength)
TransferAnnotations ==
  /\ nextCall("transferAnnotations")
  /\ annotations' = transferAnnotations(annotations, Head(todo).path, Head(todo).offset,
                                        Head(todo).newPath, Head(todo).newOffset)
  /\ todo' = Tail(todo)
  /\ calls' = Append(calls, Head(todo))
  /\ UNCHANGED <<doc, containerNodes, pc, args, ret, mergeTrafo, reported, pre>>
  /\ UNCHANGED <<selVars, domVars>>

\* container.hide(id)
ContainerHide ==
  /\ nextCall("hide")
  /\ containerNodes' = hide(containerNodes, Head(todo).id)
  /\ todo' = Tail(todo)
  /\ calls' = Append(calls, Head(todo))
  /\ UNCHANGED <<doc, annotations, pc, args, ret, mergeTrafo, reported, pre>>
  /\ UNCHANGED <<selVars, domVars>>

\* tx.delete(id)
TxDelete ==
  /\ nextCall("delete")
  /\ doc' = txDelete(doc, Head(todo).id)
  /\ todo' = Tail(todo)
  /\ calls' = Append(calls, Head(todo))
  /\ UNCHANGED <<containerNodes, annotations, pc, args, ret, mergeTrafo, reported, pre>>
  /\ UNCHANGED <<selVars, domVars>>

\* selection = tx.createSelection(json); args.selection = selection; and the
\* returns of _mergeTextNodes, _mergeComponents and merge
TxCreateSelection ==
  /\ nextCall("createSelection")
  /\ ret' = returnArgs(args, [selection |-> createSelection(Head(todo).json)])
  /\ pc' = "returned"
  /\ todo' = Tail(todo)
  /\ calls' = Append(calls, Head(todo))
  /\ UNCHANGED <<doc, containerNodes, annotations, args, mergeTrafo, reported, pre>>
  /\ UNCHANGED <<selVars, domVars>>

\* the caller is done with the returned args (or the error): the next merge
\* starts from the document as this one left it
EndTransaction ==
  /\ pc \in {"returned", "threw"}
  /\ pc' = "idle"
  /\ args' = emptyObject
  /\ ret' = undefined
  /\ mergeTrafo' = notCalled
  /\ calls' = <<>>
  /\ reported' = <<>>
  /\ pre' = [doc |-> doc, containerNodes |-> containerNodes,
             annotations |-> annotations]
  /\ UNCHANGED <<doc, containerNodes, annotations, todo>>
  /\ UNCHANGED <<selVars, domVars>>

(***************************************************************************)
(* The calls of merge the model makes                                      *)
(***************************************************************************)
\* the paths of the components of a node
pathsOf(node) ==
  { <<node.id, getAddressablePropertyNames(node.type)[j]>> :
      j \in 1..Len(getAddressablePropertyNames(node.type)) }

\* the paths of the visible components
visiblePaths ==
  UNION { pathsOf(doc[containerNodes[i]]) : i \in 1..Len(containerNodes) }

\* values of args.direction: the two supported ones and another truthy one
Directions == {"left", "right", "up"}

\* the registries that matter to a merge at path in direction: every set of
\* the three keys _getNodeMerger looks up for the pair of nodes, or every
\* set of component mergers when both addresses lie in one node
behaviorsFor(path, direction) ==
  LET pair == addressPair(doc, containerNodes,
                          [path |-> path, direction |-> direction])
  IN  IF pair = noAddress
        THEN { [mergers |-> {<<"paragraph", "paragraph">>},
                componentMergers |-> {"figure"}] }
        ELSE LET t1 == getChildAt(doc, containerNodes, pair[1][1]).type
                 t2 == getChildAt(doc, containerNodes, pair[2][1]).type
             IN  IF pair[1][1] = pair[2][1]
                   THEN { [mergers |-> {}, componentMergers |-> c] :
                            c \in SUBSET {t1} }
                   ELSE { [mergers |-> m, componentMergers |-> {}] :
                            m \in SUBSET { <<t1, t2>>, <<"textish", t2>>,
                                           <<t1, "textish">> } }

\* a key that is missing, or present with one of the values
optional(key, values) == {emptyObject} \cup { key :> v : v \in values }

\* the selection a caller passes along: a cursor at the start of path
callerSelection(path) ==
  fromJSON([type |-> "property", path |-> path, startOffset |-> 0])

\* args with all mandatory fields, for a merge at path in direction
argsAt(path, direction) ==
  { ("containerId" :> "body") @@ ("path" :> path) @@ ("direction" :> direction)
      @@ behavior @@ selection :
    behavior \in optional("editingBehavior", behaviorsFor(path, direction)),
    selection \in optional("selection", {callerSelection(path)}) }

sufficientArgs ==
  UNION { argsAt(path, direction) : path \in visiblePaths, direction \in Directions }

\* args that lack a mandatory field, or carry an empty direction
mandatoryFields == {"containerId", "path", "direction"}
insufficientArgs ==
  { a \in { containerId @@ path @@ direction :
              containerId \in optional("containerId", {"body"}),
              path \in optional("path", visiblePaths),
              direction \in optional("direction", {"", "left", "right"}) } :
      \/ ~(mandatoryFields \subseteq DOMAIN a)
      \/ a.direction = "" }

(***************************************************************************)
(* Specification of the merge transformation                               *)
(***************************************************************************)
\* the PropertySelection part of the state is not used by merge
selIdle ==
  /\ sel = nullSelection
  /\ otherSel = nullSelection
  /\ selOp = "none"
  /\ selStrict = FALSE
  /\ selResult = FALSE
  /\ selValue = undefined
  /\ selJSON = undefined
  /\ selDoc = "null"

\* the DOMSelection part of the state is used by neither
domIdle ==
  /\ surface = <<>>
  /\ wSel = [rangeCount |-> 0]
  /\ domOp = "none"
  /\ domOptions = emptyObject
  /\ domResult = undefined

\* every range of a text of length len
rangesOf(len) == { <<s, e>> \in (0..len) \X (0..len) : s < e }

\* an annotation on every range of every text of d
annotationsOf(d) ==
  UNION { { [id |-> <<i, r[1], r[2]>>, path |-> getTextPath(d[i]),
             startOffset |-> r[1], endOffset |-> r[2]] :
            r \in rangesOf(Len(getText(d[i]))) } :
          i \in { j \in DOMAIN d : isInstanceOfText(d[j]) } }

\* a document of MaxNodes visible nodes: paragraphs with a text of up to
\* MaxTextLen characters and figures, every range of every text annotated
Init ==
  /\ \E types \in [1..MaxNodes -> NodeTypes], lens \in [1..MaxNodes -> 0..MaxTextLen] :
       /\ \A i \in 1..MaxNodes : types[i] \notin TextTypes => lens[i] = 0
       /\ doc = [i \in 1..MaxNodes |->
                   [id |-> i, type |-> types[i], content |-> TextOf(i, lens[i])]]
       /\ annotations = annotationsOf(doc)
  /\ containerNodes = [i \in 1..MaxNodes |-> i]
  /\ pc = "idle"
  /\ args = emptyObject
  /\ ret = undefined
  /\ mergeTrafo = notCalled
  /\ todo = <<>>
  /\ calls = <<>>
  /\ reported = <<>>
  /\ pre = [doc |-> doc, containerNodes |-> containerNodes,
            annotations |-> annotations]
  /\ selIdle
  /\ domIdle

Next ==
  \/ \E a \in sufficientArgs \cup insufficientArgs : Merge(a)
  \/ TxUpdate
  \/ TransferAnnotations
  \/ ContainerHide
  \/ TxDelete
  \/ TxCreateSelection
  \/ EndTransaction

Spec == Init /\ [][Next]_vars


(***************************************************************************)
(* Specification of the PropertySelection predicates                       *)
(***************************************************************************)
\* the paths selections are made on
SelectionPaths == { <<1, "content">>, <<2, "content">> }

\* this: every property selection with offsets up to MaxOffset
Selections ==
  { PropertySelection(path, startOffset, endOffset, reverse, surfaceId) :
      path \in SelectionPaths, startOffset \in 0..MaxOffset,
      endOffset \in 0..MaxOffset, reverse \in BOOLEAN,
      surfaceId \in {undefinedString, "body"} }

\* the other operand: a property selection or the null selection
OtherSelections ==
  { PropertySelection(path, startOffset, endOffset, FALSE, undefinedString) :
      path \in SelectionPaths, startOffset \in 0..MaxOffset,
      endOffset \in 0..MaxOffset } \cup {nullSelection}

\* the merge part of the state is not used by the selection predicates
mergeIdle ==
  /\ doc = <<>>
  /\ containerNodes = <<>>
  /\ annotations = {}
  /\ pc = "idle"
  /\ args = emptyObject
  /\ ret = undefined
  /\ mergeTrafo = notCalled
  /\ todo = <<>>
  /\ calls = <<>>
  /\ reported = <<>>
  /\ pre = [doc |-> <<>>, containerNodes |-> <<>>, annotations |-> {}]

InitSel ==
  /\ sel \in Selections
  /\ otherSel \in OtherSelections
  /\ selOp = "none"
  /\ selStrict = FALSE
  /\ selResult = FALSE
  /\ selValue = undefined
  /\ selJSON = undefined
  /\ selDoc = "null"
  /\ mergeIdle
  /\ domIdle

\* sel.isInsideOf(other, strict)
IsInsideOf(strict) ==
  /\ selOp = "none"
  /\ selOp' = "isInsideOf"
  /\ selStrict' = strict
  /\ selResult' = isInsideOf(sel, otherSel, strict)
  /\ selValue' = undefined
  /\ selJSON' = undefined
  /\ UNCHANGED <<sel, otherSel, selDoc>>
  /\ UNCHANGED <<mergeVars, domVars>>

\* sel.contains(other, strict)
Contains(strict) ==
  /\ selOp = "none"
  /\ selOp' = "contains"
  /\ selStrict' = strict
  /\ selResult' = contains(sel, otherSel, strict)
  /\ selValue' = undefined
  /\ selJSON' = undefined
  /\ UNCHANGED <<sel, otherSel, selDoc>>
  /\ UNCHANGED <<mergeVars, domVars>>

\* sel.overlaps(other, strict)
Overlaps(strict) ==
  /\ selOp = "none"
  /\ selOp' = "overlaps"
  /\ selStrict' = strict
  /\ selResult' = overlaps(sel, otherSel, strict)
  /\ selValue' = undefined
  /\ selJSON' = undefined
  /\ UNCHANGED <<sel, otherSel, selDoc>>
  /\ UNCHANGED <<mergeVars, domVars>>

\* sel.expand(other)
Expand ==
  /\ selOp = "none"
  /\ selOp' = "expand"
  /\ selStrict' = FALSE
  /\ selResult' = FALSE
  /\ selValue' = expand(sel, otherSel)
  /\ selJSON' = undefined
  /\ UNCHANGED <<sel, otherSel, selDoc>>
  /\ UNCHANGED <<mergeVars, domVars>>

\* sel.truncate(other)
Truncate ==
  /\ selOp = "none"
  /\ selOp' = "truncate"
  /\ selStrict' = FALSE
  /\ selResult' = FALSE
  /\ selValue' = truncate(sel, otherSel)
  /\ selJSON' = undefined
  /\ UNCHANGED <<sel, otherSel, selDoc>>
  /\ UNCHANGED <<mergeVars, domVars>>

\* sel.toJSON()
ToJSON ==
  /\ selOp = "none"
  /\ selOp' = "toJSON"
  /\ selStrict' = FALSE
  /\ selResult' = FALSE
  /\ selValue' = toJSON(sel)
  /\ selJSON' = undefined
  /\ UNCHANGED <<sel, otherSel, selDoc>>
  /\ UNCHANGED <<mergeVars, domVars>>

\* json without the given keys
withoutKeys(json, keys) == [k \in (DOMAIN json) \ keys |-> json[k]]

\* the records passed to fromJSON: the one toJSON has just returned, or a
\* record that has no endOffset
jsonArguments ==
  IF selOp = "toJSON" THEN {selValue}
  ELSE IF selOp # "none" \/ isNull(otherSel) THEN {}
  ELSE ({ withoutKeys(toJSON(otherSel), keys) :
           keys \in {{"endOffset"}, {"endOffset", "reverse", "surfaceId"}} })

\* PropertySelection.fromJSON(json)
FromJSON(json) ==
  /\ selOp' = "fromJSON"
  /\ selStrict' = FALSE
  /\ selResult' = FALSE
  /\ selValue' = fromJSON(json)
  /\ selJSON' = json
  /\ UNCHANGED <<sel, otherSel, selDoc>>
  /\ UNCHANGED <<mergeVars, domVars>>

\* sel.collapse(direction)
Collapse(direction) ==
  /\ selOp = "none"
  /\ selOp' = "collapse"
  /\ selStrict' = FALSE
  /\ selResult' = FALSE
  /\ selValue' = collapse(sel, direction)
  /\ selJSON' = undefined
  /\ UNCHANGED <<sel, otherSel, selDoc>>
  /\ UNCHANGED <<mergeVars, domVars>>

\* the ranges passed to createWithNewRange
NewRanges == { <<0, 0>>, <<0, MaxOffset>>, <<MaxOffset, MaxOffset>> }

\* sel.createWithNewRange(startOffset, endOffset)
CreateWithNewRange(startOffset, endOffset) ==
  /\ selOp = "none"
  /\ selOp' = "createWithNewRange"
  /\ selStrict' = FALSE
  /\ selResult' = FALSE
  /\ selValue' = createWithNewRange(sel, number(startOffset), number(endOffset))
  /\ selJSON' = undefined
  /\ UNCHANGED <<sel, otherSel, selDoc>>
  /\ UNCHANGED <<mergeVars, domVars>>

\* sel.getFragments()
GetFragments ==
  /\ selOp = "none"
  /\ selOp' = "getFragments"
  /\ selStrict' = FALSE
  /\ selResult' = FALSE
  /\ selValue' = getFragments(sel)
  /\ selJSON' = undefined
  /\ UNCHANGED <<sel, otherSel, selDoc>>
  /\ UNCHANGED <<mergeVars, domVars>>

\* the names of the two coordinate accessors, and of all four accessors
Coordinates == {"start", "end"}
Accessors == {"start", "end", "startPath", "endPath"}

\* sel.start and sel.end read: path and offset of the adapter
ReadCoordinate(name) ==
  /\ selOp = "none"
  /\ selOp' = name
  /\ selStrict' = FALSE
  /\ selResult' = FALSE
  /\ selValue' = IF name = "start" THEN start(sel) ELSE end(sel)
  /\ selJSON' = undefined
  /\ UNCHANGED <<sel, otherSel, selDoc>>
  /\ UNCHANGED <<mergeVars, domVars>>

\* sel.start.offset = offset, sel.end.offset = offset
WriteOffset(name, offset) ==
  /\ selOp = "none"
  /\ selOp' = name \o ".offset ="
  /\ selStrict' = FALSE
  /\ selResult' = FALSE
  /\ selValue' = number(offset)
  /\ selJSON' = undefined
  /\ sel' = setOffset(sel, adapterOf(name), offset)
  /\ UNCHANGED <<otherSel, selDoc>>
  /\ UNCHANGED <<mergeVars, domVars>>

\* sel.start.path = path, sel.end.path = path
WritePath(name, path) ==
  /\ selOp = "none"
  /\ selOp' = name \o ".path ="
  /\ selStrict' = FALSE
  /\ selResult' = FALSE
  /\ selValue' = [type |-> "path", value |-> path]
  /\ selJSON' = undefined
  /\ sel' = setPath(sel, adapterOf(name), path)
  /\ UNCHANGED <<otherSel, selDoc>>
  /\ UNCHANGED <<mergeVars, domVars>>

\* sel.start = v, sel.end = v, sel.startPath = v, sel.endPath = v: the setter
\* throws
Assign(name) ==
  /\ selOp = "none"
  /\ selOp' = name \o " ="
  /\ selStrict' = FALSE
  /\ selResult' = FALSE
  /\ selValue' = immutable
  /\ selJSON' = undefined
  /\ UNCHANGED <<sel, otherSel, selDoc>>
  /\ UNCHANGED <<mergeVars, domVars>>

\* the documents a selection is attached to
Documents == {"doc"}

\* sel.attach(doc)
Attach(d) ==
  /\ selOp = "none"
  /\ selOp' = "attach"
  /\ selStrict' = FALSE
  /\ selResult' = FALSE
  /\ selValue' = sel
  /\ selJSON' = undefined
  /\ selDoc' = d
  /\ UNCHANGED <<sel, otherSel>>
  /\ UNCHANGED <<mergeVars, domVars>>

\* the caller has taken the result; the next operation can be applied
Return ==
  /\ selOp # "none"
  /\ selOp' = "none"
  /\ selStrict' = FALSE
  /\ selResult' = FALSE
  /\ selValue' = undefined
  /\ selJSON' = undefined
  /\ UNCHANGED <<sel, otherSel, selDoc>>
  /\ UNCHANGED <<mergeVars, domVars>>

NextSel ==
  \/ \E strict \in BOOLEAN : IsInsideOf(strict)
  \/ \E strict \in BOOLEAN : Contains(strict)
  \/ \E strict \in BOOLEAN : Overlaps(strict)
  \/ Expand
  \/ Truncate
  \/ ToJSON
  \/ \E json \in jsonArguments : FromJSON(json)
  \/ \E direction \in {"left", "right"} : Collapse(direction)
  \/ \E range \in NewRanges : CreateWithNewRange(range[1], range[2])
  \/ GetFragments
  \/ \E name \in Coordinates : ReadCoordinate(name)
  \/ \E name \in Coordinates, offset \in 0..MaxOffset : WriteOffset(name, offset)
  \/ \E name \in Coordinates, path \in SelectionPaths : WritePath(name, path)
  \/ \E name \in Accessors : Assign(name)
  \/ \E d \in Documents : Attach(d)
  \/ Return

SpecSel == InitSel /\ [][NextSel]_vars


(***************************************************************************)
(* DOMSelection: the DOM and the values of the model                       *)
(***************************************************************************)
\* the largest number of child elements of the surface element
MaxElements == 3
\* the largest offset of a DOM position outside a property
MaxDomOffset == 1

\* null
null == [type |-> "null"]

\* new Coordinate(path, offset), new Range(start, end, reverse)
Coordinate(path, offset) ==
  [type |-> "coordinate", path |-> path, offset |-> offset]
Range(rangeStart, rangeEnd, reverse) ==
  [type |-> "range", start |-> rangeStart, end |-> rangeEnd, reverse |-> reverse]

\* the TypeError of a property read on undefined
TypeError == Error("TypeError: Cannot read property of undefined")
isError(v) == v.type = "error"

\* the i-th child of the surface element: an element with a data-path and a
\* text, or an element without
propertyElement(i, len) ==
  [dataPath |-> <<i, "content">>, textContent |-> TextOf(i, len)]
otherElement(i) == [id |-> i]
hasDataPath(el) == "dataPath" \in DOMAIN el

\* nodes: the surface element, or the i-th child (or its text node)
surfaceNode == [node |-> "surface"]
childNode(i) == [node |-> "child", index |-> i]
isSurface(node) == node.node = "surface"

\* the place of a node in document order; the surface contains its children
documentPosition(node) == IF isSurface(node) THEN 0 ELSE node.index

\* surface.el.querySelectorAll('*[data-path]'): the indices of the property
\* elements, in document order
querySelectorAll(els) ==
  SelectSeq([i \in 1..Len(els) |-> i], LAMBDA i : hasDataPath(els[i]))

\* _getPath(el)
getPath(el) == el.dataPath

\* surface.getDocument(); this.doc, which the constructor does not set
getDocument == [type |-> "document"]
thisDoc == undefined

\* doc.get(path): the text of the element with that data-path
get(d, els, path) ==
  IF d.type = "undefined" THEN TypeError
  ELSE [type |-> "string",
        value |-> (CHOOSE el \in {els[i] : i \in 1..Len(els)} :
                     hasDataPath(el) /\ el.dataPath = path).textContent]


(***************************************************************************)
(* DOMSelection: mapping DOM positions to model coordinates                *)
(***************************************************************************)
\* _compareNodes(node1, node2): -1 when node2 follows node1 or lies in it,
\* 1 when node2 precedes or contains node1, else 0
compareNodes(node1, node2) ==
  IF documentPosition(node2) > documentPosition(node1) THEN -1
  ELSE IF documentPosition(node2) < documentPosition(node1) THEN 1
  ELSE 0

\* the while loop of _searchForCoordinate; indices count from 1
RECURSIVE searchLoop(_, _, _, _, _, _)
searchLoop(elements, node, idx1, idx2, cmp1, cmp2) ==
  LET l == idx2 - idx1 + 1
  IN IF cmp2 < 0 THEN [idx |-> idx2, cmp2 |-> cmp2]
     ELSE IF cmp1 > 0 THEN [idx |-> idx1, cmp2 |-> cmp2]
     ELSE IF l <= 2 THEN [idx |-> idx2, cmp2 |-> cmp2]
     ELSE LET pivotIdx == idx1 + (l \div 2)
              pivotCmp == compareNodes(childNode(elements[pivotIdx]), node)
          IN IF pivotCmp < 0
               THEN searchLoop(elements, node, pivotIdx, idx2, pivotCmp, cmp2)
               ELSE searchLoop(elements, node, idx1, pivotIdx, cmp1, pivotCmp)

\* the charPos _searchForCoordinate computes
charPosOf(els, elements, found, options) ==
  IF directionOf(options) = "left"
    THEN IF found.idx = 1 THEN 0
         ELSE Len(get(getDocument, els,
                      getPath(els[elements[found.idx - 1]])).value)
  ELSE IF found.cmp2 < 0
    THEN Len(get(getDocument, els, getPath(els[elements[found.idx]])).value)
  ELSE 0

\* this._searchForCoordinate(node, offset, options); without a property
\* element elements[0] is undefined and _compareNodes throws; the coordinate
\* returned holds the offset passed in, charPos is not used
searchForCoordinate(els, node, offset, options) ==
  LET elements == querySelectorAll(els)
  IN IF elements = <<>> THEN TypeError
     ELSE LET found == searchLoop(elements, node, 1, Len(elements),
                         compareNodes(childNode(elements[1]), node),
                         compareNodes(childNode(elements[Len(elements)]), node))
              path == IF directionOf(options) = "left" /\ found.idx # 1
                        THEN getPath(els[elements[found.idx - 1]])
                        ELSE getPath(els[elements[found.idx]])
              charPos == charPosOf(els, elements, found, options)
          IN Coordinate(path, offset)

\* TextPropertyComponent.getCoordinate(surface.el, node, offset): the
\* coordinate of a position inside a property element, else null
textPropertyGetCoordinate(els, node, offset) ==
  IF ~isSurface(node) /\ hasDataPath(els[node.index])
    THEN Coordinate(getPath(els[node.index]), offset)
    ELSE null

\* this._getCoordinate(node, offset, options)
getCoordinate(els, node, offset, options) ==
  LET coor == textPropertyGetCoordinate(els, node, offset)
  IN IF coor # null THEN coor
     ELSE searchForCoordinate(els, node, offset, options)

\* _isReverse(anchorNode, anchorOffset, focusNode, focusOffset)
isReverse(anchorNode, anchorOffset, focusNode, focusOffset) ==
  LET cmp == compareNodes(focusNode, anchorNode)
  IN cmp < 0 \/ (cmp = 0 /\ focusOffset < anchorOffset)

\* _createRange(start, end, isReverse)
createRange(rangeStart, rangeEnd, reverse) ==
  IF reverse THEN Range(rangeEnd, rangeStart, reverse)
  ELSE Range(rangeStart, rangeEnd, reverse)

\* this._getRange(anchorNode, anchorOffset, focusNode, focusOffset): no
\* options are passed on; an error thrown by _getCoordinate is thrown on
getRange(els, anchorNode, anchorOffset, focusNode, focusOffset) ==
  LET rangeStart == getCoordinate(els, anchorNode, anchorOffset, emptyObject)
      rangeEnd == IF anchorNode = focusNode /\ anchorOffset = focusOffset
                    THEN rangeStart
                    ELSE getCoordinate(els, focusNode, focusOffset, emptyObject)
  IN IF isError(rangeStart) THEN rangeStart
     ELSE IF isError(rangeEnd) THEN rangeEnd
     ELSE IF rangeStart # null /\ rangeEnd # null
       THEN createRange(rangeStart, rangeEnd,
              isReverse(anchorNode, anchorOffset, focusNode, focusOffset))
     ELSE null

\* wSel.isCollapsed
wSelIsCollapsed(w) ==
  w.anchorNode = w.focusNode /\ w.anchorOffset = w.focusOffset

\* the place of a DOM position among the children of the surface: the
\* surface at offset k lies between child k and child k + 1
boundaryOf(node, offset) ==
  IF isSurface(node) THEN 2 * offset ELSE 2 * node.index - 1

\* wSel.getRangeAt(0): the DOM range from the earlier to the later of
\* anchor and focus
getRangeAt(w) ==
  LET anchorFirst ==
        \/ boundaryOf(w.anchorNode, w.anchorOffset)
             < boundaryOf(w.focusNode, w.focusOffset)
        \/ /\ boundaryOf(w.anchorNode, w.anchorOffset)
               = boundaryOf(w.focusNode, w.focusOffset)
           /\ w.anchorOffset <= w.focusOffset
  IN IF anchorFirst
       THEN [startContainer |-> w.anchorNode, startOffset |-> w.anchorOffset,
             endContainer |-> w.focusNode, endOffset |-> w.focusOffset]
       ELSE [startContainer |-> w.focusNode, startOffset |-> w.focusOffset,
             endContainer |-> w.anchorNode, endOffset |-> w.anchorOffset]

\* wRange.cloneContents().querySelectorAll('*[data-path]'): the property
\* elements that lie in the range, wholly or in part
clonedProperties(els, wRange) ==
  LET first == IF isSurface(wRange.startContainer)
                 THEN wRange.startOffset + 1 ELSE wRange.startContainer.index
      last == IF isSurface(wRange.endContainer)
                THEN wRange.endOffset ELSE wRange.endContainer.index
      collapsed == /\ wRange.startContainer = wRange.endContainer
                   /\ wRange.startOffset = wRange.endOffset
  IN SelectSeq(querySelectorAll(els),
               LAMBDA i : ~collapsed /\ first <= i /\ i <= last)

\* this._getEnclosingRange(wRange); doc is this.doc
getEnclosingRange(els, wRange) ==
  LET props == clonedProperties(els, wRange)
  IN IF props = <<>> THEN null
     ELSE LET first == els[props[1]]
              last == els[props[Len(props)]]
              firstPath == getPath(first)
              lastPath == IF first = last THEN firstPath ELSE getPath(last)
              text == get(thisDoc, els, lastPath)
          IN IF isError(text) THEN text
             ELSE Range(Coordinate(firstPath, 0),
                        Coordinate(lastPath, Len(text.value)), FALSE)

\* this.mapDOMSelection(options): the range of a collapsed selection is
\* computed with the options and then replaced by the one of
\* _getEnclosingRange or _getRange
mapDOMSelection(els, w, options) ==
  IF w.rangeCount = 0 THEN null
  ELSE LET coor == IF wSelIsCollapsed(w)
                     THEN getCoordinate(els, w.anchorNode, w.anchorOffset, options)
                     ELSE null
       IN IF isError(coor) THEN coor
          ELSE IF isSurface(w.anchorNode)
            THEN getEnclosingRange(els, getRangeAt(w))
          ELSE getRange(els, w.anchorNode, w.anchorOffset,
                        w.focusNode, w.focusOffset)

(***************************************************************************)
(* Specification of DOMSelection                                           *)
(***************************************************************************)
\* the elements that can be the i-th child of the surface element
ElementsAt(i) ==
  {otherElement(i)} \cup { propertyElement(i, len) : len \in 1..MaxTextLen }

\* the surface elements: up to MaxElements children
Surfaces ==
  UNION { { els \in [1..n -> UNION { ElementsAt(i) : i \in 1..n }] :
              \A i \in 1..n : els[i] \in ElementsAt(i) } : n \in 0..MaxElements }

\* the DOM positions: the surface with a child offset, a property element
\* at the start or the end of its text, another element with any offset
Positions(els) ==
  { <<surfaceNode, k>> : k \in 0..Len(els) }
  \cup UNION { { <<childNode(i), offset>> :
                   offset \in IF hasDataPath(els[i])
                                THEN {0, Len(els[i].textContent)}
                                ELSE 0..MaxDomOffset } : i \in 1..Len(els) }

\* the selections of the window: none, or an anchor and a focus
WindowSelections(els) ==
  { [rangeCount |-> 0] }
  \cup { [rangeCount |-> 1, anchorNode |-> a[1], anchorOffset |-> a[2],
          focusNode |-> f[1], focusOffset |-> f[2]] :
            a \in Positions(els), f \in Positions(els) }

\* the options: none, or a direction
DOMOptions == optional("direction", {"left", "right"})

InitDOM ==
  /\ surface \in Surfaces
  /\ wSel \in WindowSelections(surface)
  /\ domOp = "none"
  /\ domOptions = emptyObject
  /\ domResult = undefined
  /\ mergeIdle
  /\ selIdle

\* domSelection._searchForCoordinate(node, offset, options) at the anchor of
\* the window's selection
SearchForCoordinate(options) ==
  /\ wSel.rangeCount > 0
  /\ domOp' = "_searchForCoordinate"
  /\ domOptions' = options
  /\ domResult' = searchForCoordinate(surface, wSel.anchorNode,
                                      wSel.anchorOffset, options)
  /\ UNCHANGED <<surface, wSel>>
  /\ UNCHANGED <<mergeVars, selVars>>

\* domSelection.mapDOMSelection(options)
MapDOMSelection(options) ==
  /\ domOp' = "mapDOMSelection"
  /\ domOptions' = options
  /\ domResult' = mapDOMSelection(surface, wSel, options)
  /\ UNCHANGED <<surface, wSel>>
  /\ UNCHANGED <<mergeVars, selVars>>

NextDOM ==
  \/ \E options \in DOMOptions : SearchForCoordinate(options)
  \/ \E options \in DOMOptions : MapDOMSelection(options)

SpecDOM == InitDOM /\ [][NextDOM]_vars


(***************************************************************************)
(* Properties of the merge transformation                                  *)
(***************************************************************************)
\* merge was called with all mandatory fields
calledWithFields == pc # "idle" /\ mandatoryFields \subseteq DOMAIN args

\* the address of args.path when merge was called
calledAddress == getAddress(pre.doc, pre.containerNodes, args.path)

\* the last address of the container when merge was called
lastAddress ==
  <<Len(pre.containerNodes),
    Len(getAddressablePropertyNames(
          pre.doc[pre.containerNodes[Len(pre.containerNodes)]].type))>>

\* merge was called at the container's edge or with an unsupported direction
calledAtBoundary ==
  /\ calledWithFields
  /\ \/ args.direction = "left" /\ calledAddress = <<1, 1>>
     \/ args.direction = "right" /\ calledAddress = lastAddress
     \/ args.direction \notin {"left", "right"} /\ ~falsy(args.direction)

\* merge was called with a neighbouring address in the given direction
calledWithNeighbour ==
  /\ calledWithFields
  /\ ~falsy(args.direction)
  /\ ~calledAtBoundary

\* the two nodes merge resolved, as they were when merge was called
firstNodeCalled ==
  pre.doc[pre.containerNodes[
    IF args.direction = "right" \/ calledAddress[2] > 1
      THEN calledAddress[1] ELSE calledAddress[1] - 1]]
secondNodeCalled ==
  pre.doc[pre.containerNodes[
    IF args.direction = "left"
         \/ calledAddress[2] < Len(getAddressablePropertyNames(
                                     pre.doc[args.path[1]].type))
      THEN calledAddress[1] ELSE calledAddress[1] + 1]]

\* the built-in text merge ran to its end
textMergeReturned ==
  /\ pc = "returned"
  /\ mergeTrafo = mergeTextNodesTrafo

\* the visible nodes
visibleNodes == { containerNodes[i] : i \in 1..Len(containerNodes) }

\* the document is as it was when merge was called
documentUnchanged ==
  /\ doc = pre.doc
  /\ containerNodes = pre.containerNodes
  /\ annotations = pre.annotations

\* positions in calls of the calls of kind op
callsOf(op) == { i \in 1..Len(calls) : calls[i].op = op }

\* C1: after the built-in text merge of a non-empty first node the text of
\* first is its original text followed by the whole text of second, second is
\* neither visible nor stored, first remains, and the returned selection is
\* collapsed at (first's text path, original length of first's text)
C1_TextMergeNonEmpty ==
  (textMergeReturned /\ Len(firstNodeCalled.content) > 0) =>
    LET first == firstNodeCalled
        second == secondNodeCalled
    IN  /\ first.id \in DOMAIN doc
        /\ doc[first.id].content = first.content \o second.content
        /\ second.id \notin visibleNodes
        /\ second.id \notin DOMAIN doc
        /\ first.id \in visibleNodes
        /\ ret.selection.type = "property"
        /\ ret.selection.path = <<first.id, "content">>
        /\ ret.selection.startOffset = Len(first.content)
        /\ isCollapsed(ret.selection)

C1_Witness ==
  /\ textMergeReturned
  /\ Len(firstNodeCalled.content) > 0
  /\ Len(secondNodeCalled.content) > 0
  /\ Len(doc[firstNodeCalled.id].content) > Len(firstNodeCalled.content)

C3_AnnotationTransfer ==
  (textMergeReturned /\ Len(firstNodeCalled.content) > 0) =>
    LET firstPath == <<firstNodeCalled.id, "content">>
        secondPath == <<secondNodeCalled.id, "content">>
        firstLength == Len(firstNodeCalled.content)
        request == [op |-> "transferAnnotations", path |-> secondPath, offset |-> 0,
                    newPath |-> firstPath, newOffset |-> firstLength]
    IN  /\ \A a \in pre.annotations :
             a.path = secondPath =>
               [a EXCEPT !.path = firstPath,
                         !.startOffset = a.startOffset + firstLength,
                         !.endOffset = a.endOffset + firstLength] \in annotations
        /\ \A a \in annotations : a.path # secondPath
        /\ \E i \in 1..Len(calls) :
             /\ calls[i] = request
             /\ callsOf("transferAnnotations") = {i}
             /\ \E j \in callsOf("update") : j < i
             /\ \A k \in callsOf("hide") \cup callsOf("delete") : i < k

C3_Witness ==
  /\ textMergeReturned
  /\ Len(firstNodeCalled.content) > 0
  /\ \E a \in pre.annotations :
       /\ a.path = <<secondNodeCalled.id, "content">>
       /\ a.startOffset > 0
       /\ a \notin annotations

\* C4: in every state every visible node is stored; every delete of the text
\* merge comes after the hide of the same node; and after the text merge the
\* removed node is neither visible nor stored
C4_HideBeforeDelete ==
  /\ visibleNodes \subseteq DOMAIN doc
  /\ \A k \in callsOf("delete") :
       \E j \in callsOf("hide") : j < k /\ calls[j].id = calls[k].id
  /\ textMergeReturned =>
       LET removed == IF Len(firstNodeCalled.content) = 0
                        THEN firstNodeCalled.id ELSE secondNodeCalled.id
       IN  /\ removed \notin visibleNodes
           /\ removed \notin DOMAIN doc
           /\ callsOf("hide") # {}
           /\ callsOf("delete") # {}

\* the removed node is hidden and not yet deleted
C4_Witness ==
  /\ pc = "merging"
  /\ nextCall("delete")
  /\ Head(todo).id \notin visibleNodes
  /\ Head(todo).id \in DOMAIN doc


\* the registered behavior has a merger for the pair of types
registeredFor(firstType, secondType) ==
  /\ hasOwnProperty(args, "editingBehavior")
  /\ <<firstType, secondType>> \in args.editingBehavior.mergers

\* merge resolved two different nodes
calledOnTwoNodes ==
  /\ calledWithNeighbour
  /\ firstNodeCalled.id # secondNodeCalled.id

\* the strategy the priority rules (a) to (e) name for the resolved nodes
strategyByPriority ==
  LET t1 == firstNodeCalled.type
      t2 == secondNodeCalled.type
  IN  CASE registeredFor(t1, t2) -> [kind |-> "merger", key |-> <<t1, t2>>]
        [] ~registeredFor(t1, t2) /\ t1 \in TextTypes /\ registeredFor("textish", t2) ->
             [kind |-> "merger", key |-> <<"textish", t2>>]
        [] /\ ~registeredFor(t1, t2)
           /\ ~(t1 \in TextTypes /\ registeredFor("textish", t2))
           /\ t2 \in TextTypes /\ registeredFor(t1, "textish") ->
             [kind |-> "merger", key |-> <<t1, "textish">>]
        [] /\ ~registeredFor(t1, t2)
           /\ ~(t1 \in TextTypes /\ registeredFor("textish", t2))
           /\ ~(t2 \in TextTypes /\ registeredFor(t1, "textish"))
           /\ t1 \in TextTypes /\ t2 \in TextTypes ->
             [kind |-> "mergeTextNodes"]
        [] OTHER -> [kind |-> "null"]

\* C5: for two distinct nodes the strategy is chosen by the priority (a)
\* exact pair, (b) ('textish', second.type), (c) (first.type, 'textish'),
\* (d) built-in text merge, (e) none; a registered exact pair wins over the
\* built-in text merge and rule (b) wins over rule (c)
C5_MergerPriority ==
  calledOnTwoNodes =>
    LET t1 == firstNodeCalled.type
        t2 == secondNodeCalled.type
    IN  /\ mergeTrafo = strategyByPriority
        /\ registeredFor(t1, t2) => mergeTrafo # mergeTextNodesTrafo
        /\ (/\ ~registeredFor(t1, t2)
            /\ t1 \in TextTypes /\ registeredFor("textish", t2)
            /\ t2 \in TextTypes /\ registeredFor(t1, "textish")) =>
             mergeTrafo.key = <<"textish", t2>>
        /\ ~hasOwnProperty(args, "editingBehavior") =>
             mergeTrafo = IF t1 \in TextTypes /\ t2 \in TextTypes
                            THEN mergeTextNodesTrafo ELSE nullTrafo

\* two text nodes with a registered exact pair: the registered merger runs
C5_Witness ==
  /\ calledOnTwoNodes
  /\ pc = "returned"
  /\ firstNodeCalled.type \in TextTypes
  /\ secondNodeCalled.type \in TextTypes
  /\ registeredFor(firstNodeCalled.type, secondNodeCalled.type)
  /\ registeredFor("textish", secondNodeCalled.type)
  /\ mergeTrafo = [kind |-> "merger",
                   key |-> <<firstNodeCalled.type, secondNodeCalled.type>>]
  /\ ret.selection.type = "custom"

\* C6: a merge at the container's edge, or with a truthy direction other than
\* 'left' and 'right', makes no call on the document, reports nothing, raises
\* no error and returns the args as they were passed
C6_BoundaryNoOp ==
  calledAtBoundary =>
    /\ pc = "returned"
    /\ calls = <<>>
    /\ todo = <<>>
    /\ reported = <<>>
    /\ mergeTrafo = notCalled
    /\ documentUnchanged
    /\ ret = args

\* an unsupported direction in the middle of the container, with a selection
C6_Witness ==
  /\ calledAtBoundary
  /\ pc = "returned"
  /\ args.direction = "up"
  /\ calledAddress # <<1, 1>>
  /\ calledAddress # lastAddress
  /\ hasOwnProperty(args, "selection")
  /\ hasOwnProperty(args, "editingBehavior")

\* no strategy applies to the two resolved nodes
noStrategyApplies ==
  LET t1 == firstNodeCalled.type
      t2 == secondNodeCalled.type
  IN  /\ ~registeredFor(t1, t2)
      /\ ~(t1 \in TextTypes /\ registeredFor("textish", t2))
      /\ ~(t2 \in TextTypes /\ registeredFor(t1, "textish"))
      /\ ~(t1 \in TextTypes /\ t2 \in TextTypes)

\* C7: when no strategy applies to two different nodes, merge raises no
\* error, reports the missing behaviour once, makes no call on the document
\* and returns the caller's fields unchanged apart from the selection key
C7_NoStrategy ==
  (calledOnTwoNodes /\ noStrategyApplies) =>
    /\ pc = "returned"
    /\ reported = << <<firstNodeCalled.type, secondNodeCalled.type>> >>
    /\ calls = <<>>
    /\ todo = <<>>
    /\ documentUnchanged
    /\ (DOMAIN ret) \ {"selection"} = (DOMAIN args) \ {"selection"}
    /\ \A key \in (DOMAIN args) \ {"selection"} : ret[key] = args[key]

\* a registered behavior that does not match a paragraph and a figure
C7_Witness ==
  /\ calledOnTwoNodes
  /\ noStrategyApplies
  /\ pc = "returned"
  /\ hasOwnProperty(args, "editingBehavior")
  /\ args.editingBehavior.mergers # {}
  /\ firstNodeCalled.type \in TextTypes
  /\ ~hasOwnProperty(args, "selection")
  /\ Len(reported) = 1

\* C8: merge throws whenever containerId, path or direction is missing, and
\* the document and the container are then as they were before the call
C8_InsufficientArguments ==
  (pc # "idle" /\ ~(mandatoryFields \subseteq DOMAIN args)) =>
    /\ pc = "threw"
    /\ calls = <<>>
    /\ todo = <<>>
    /\ mergeTrafo = notCalled
    /\ documentUnchanged

\* only the direction is missing
C8_Witness ==
  /\ pc = "threw"
  /\ mandatoryFields \ DOMAIN args = {"direction"}
  /\ documentUnchanged


(***************************************************************************)
(* Properties of the PropertySelection predicates                          *)
(***************************************************************************)
\* both operands are property selections
bothProperty == sel.type = "property" /\ otherSel.type = "property"

\* C9: s.contains(t, strict) holds exactly when t.isInsideOf(s, strict)
\* holds, for both values of strict; a strict result implies the non-strict
\* one; on different paths contains and isInsideOf are false
C9_ContainsIsInsideOf ==
  bothProperty =>
    /\ selOp = "contains" => selResult = isInsideOf(otherSel, sel, selStrict)
    /\ selOp = "isInsideOf" => selResult = contains(otherSel, sel, selStrict)
    /\ (selOp = "contains" /\ selStrict /\ selResult) => contains(sel, otherSel, FALSE)
    /\ (selOp = "isInsideOf" /\ selStrict /\ selResult) => isInsideOf(sel, otherSel, FALSE)
    /\ (selOp \in {"contains", "isInsideOf"} /\ sel.path # otherSel.path) => ~selResult

\* a strict containment
C9_Witness ==
  /\ bothProperty
  /\ selOp = "contains"
  /\ selStrict
  /\ selResult
  /\ sel.startOffset < otherSel.startOffset
  /\ otherSel.startOffset < otherSel.endOffset

\* the selections are disjoint or merely touch at a boundary
strictlyDisjoint ==
  sel.startOffset >= otherSel.endOffset \/ sel.endOffset <= otherSel.startOffset

\* the selections are disjoint and do not touch
apart ==
  sel.startOffset > otherSel.endOffset \/ sel.endOffset < otherSel.startOffset

\* C10, as claimed: on the same path the non-strict overlaps equals
\* not (s.startOffset >= t.endOffset or s.endOffset <= t.startOffset), the
\* strict one holds only in a subset of those cases, and on different paths
\* overlaps is false
C10_AsClaimed ==
  (bothProperty /\ selOp = "overlaps") =>
    /\ (sel.path = otherSel.path /\ ~selStrict) => selResult = ~strictlyDisjoint
    /\ (sel.path = otherSel.path /\ selStrict /\ selResult) => ~strictlyDisjoint
    /\ sel.path # otherSel.path => ~selResult

\* C10, amended: on the same path the non-strict overlaps equals
\* not (s.startOffset > t.endOffset or s.endOffset < t.startOffset), so
\* selections that touch at a boundary overlap; the strict overlaps equals
\* not (s.startOffset >= t.endOffset or s.endOffset <= t.startOffset), which
\* holds only in a subset of those cases; on different paths overlaps is false
C10_Overlaps ==
  (bothProperty /\ selOp = "overlaps") =>
    /\ (sel.path = otherSel.path /\ ~selStrict) => selResult = ~apart
    /\ (sel.path = otherSel.path /\ selStrict) => selResult = ~strictlyDisjoint
    /\ (selStrict /\ selResult) => overlaps(sel, otherSel, FALSE)
    /\ sel.path # otherSel.path => ~selResult

\* two selections that touch at a boundary overlap in the non-strict sense
C10_Witness ==
  /\ bothProperty
  /\ selOp = "overlaps"
  /\ ~selStrict
  /\ selResult
  /\ sel.path = otherSel.path
  /\ sel.startOffset < sel.endOffset
  /\ sel.endOffset = otherSel.startOffset
  /\ otherSel.startOffset < otherSel.endOffset
  /\ ~overlaps(sel, otherSel, TRUE)

\* C11: overlaps is symmetric: for all property selections s and t, on the
\* same path or on different paths, and for each value of strict,
\* s.overlaps(t, strict) equals t.overlaps(s, strict)
C11_OverlapsSymmetric ==
  (bothProperty /\ selOp = "overlaps") =>
    selResult = overlaps(otherSel, sel, selStrict)

\* two different selections of one property that overlap
C11_Witness ==
  /\ bothProperty
  /\ selOp = "overlaps"
  /\ selResult
  /\ sel.path = otherSel.path
  /\ sel.startOffset < otherSel.startOffset
  /\ otherSel.startOffset < sel.endOffset
  /\ sel.endOffset < otherSel.endOffset

\* C12: s.expand(t) on the same path returns a selection on that path with
\* startOffset the smaller of the two startOffsets and endOffset the larger
\* of the two endOffsets; on different paths it fails with the
\* cross-property error and returns no selection; s.expand(null selection)
\* yields s
C12_Expand ==
  selOp = "expand" =>
    /\ (bothProperty /\ sel.path = otherSel.path) =>
         /\ selValue.type = "property"
         /\ selValue.path = sel.path
         /\ selValue.startOffset \in {sel.startOffset, otherSel.startOffset}
         /\ selValue.startOffset <= sel.startOffset
         /\ selValue.startOffset <= otherSel.startOffset
         /\ selValue.endOffset \in {sel.endOffset, otherSel.endOffset}
         /\ selValue.endOffset >= sel.endOffset
         /\ selValue.endOffset >= otherSel.endOffset
    /\ (bothProperty /\ sel.path # otherSel.path) =>
         selValue = differentProperty
    /\ isNull(otherSel) => selValue = sel

\* an expansion that takes its start from the other selection and its end
\* from this one
C12_Witness ==
  /\ bothProperty
  /\ selOp = "expand"
  /\ sel.path = otherSel.path
  /\ otherSel.startOffset < sel.startOffset
  /\ otherSel.endOffset < sel.endOffset
  /\ selValue.type = "property"
  /\ selValue.startOffset = otherSel.startOffset
  /\ selValue.endOffset = sel.endOffset

\* truncate was applied to two selections of one property
truncatedOnePath ==
  bothProperty /\ selOp = "truncate" /\ sel.path = otherSel.path

\* C13: s.truncate(t) removes a sub-range that shares a boundary: when the
\* paths match and the startOffsets are equal the result spans
\* [t.endOffset, s.endOffset]; otherwise, when the endOffsets are equal, it
\* spans [s.startOffset, t.startOffset]; the start rule takes precedence
\* when both boundaries coincide; when the paths differ it fails with the
\* cross-property error
C13_Truncate ==
  /\ (truncatedOnePath /\ sel.startOffset = otherSel.startOffset) =>
       /\ selValue.type = "property"
       /\ selValue.path = sel.path
       /\ selValue.startOffset = otherSel.endOffset
       /\ selValue.endOffset = sel.endOffset
  /\ (truncatedOnePath /\ sel.startOffset # otherSel.startOffset
        /\ sel.endOffset = otherSel.endOffset) =>
       /\ selValue.type = "property"
       /\ selValue.path = sel.path
       /\ selValue.startOffset = sel.startOffset
       /\ selValue.endOffset = otherSel.startOffset
  /\ (bothProperty /\ selOp = "truncate" /\ sel.path # otherSel.path) =>
       selValue = differentProperty

\* both boundaries coincide and the start rule was applied
C13_Witness ==
  /\ truncatedOnePath
  /\ sel.startOffset = otherSel.startOffset
  /\ sel.endOffset = otherSel.endOffset
  /\ sel.startOffset < sel.endOffset
  /\ selValue.type = "property"
  /\ selValue.startOffset = otherSel.endOffset
  /\ selValue.endOffset = sel.endOffset

\* truncate was applied to two selections of one property that share
\* neither boundary
truncatedNoBoundary ==
  /\ truncatedOnePath
  /\ sel.startOffset # otherSel.startOffset
  /\ sel.endOffset # otherSel.endOffset

\* C14, as claimed: s.truncate(t) with matching paths but neither boundary
\* equal raises no error and yields a new property selection
C14_AsClaimed ==
  truncatedNoBoundary => selValue.type = "property"

\* C14, amended: s.truncate(t) with matching paths but neither boundary
\* equal raises the constructor's invalid-arguments error, because the
\* undefined startOffset is not a number; no selection is yielded
C14_TruncateNoBoundary ==
  truncatedNoBoundary => selValue = invalidArguments

\* t lies strictly inside s and truncate threw
C14_Witness ==
  /\ truncatedNoBoundary
  /\ sel.startOffset < otherSel.startOffset
  /\ otherSel.endOffset < sel.endOffset
  /\ selValue.type = "error"

\* fromJSON was applied to the record sel.toJSON() returned
roundTrip ==
  selOp = "fromJSON" /\ hasOwnProperty(selJSON, "endOffset")

\* C15: fromJSON(s.toJSON()) has the same path, startOffset, endOffset,
\* reverse and surfaceId as s and equals s, for every property selection s;
\* fromJSON of a record without an endOffset key yields a collapsed
\* selection whose endOffset is the record's startOffset
C15_RoundTrip ==
  /\ roundTrip =>
       /\ selJSON = toJSON(sel)
       /\ selValue.type = "property"
       /\ selValue.path = sel.path
       /\ selValue.startOffset = sel.startOffset
       /\ selValue.endOffset = sel.endOffset
       /\ selValue.reverse = sel.reverse
       /\ selValue.surfaceId = sel.surfaceId
       /\ equals(selValue, sel)
       /\ equals(sel, selValue)
  /\ (selOp = "fromJSON" /\ ~hasOwnProperty(selJSON, "endOffset")) =>
       /\ selValue.type = "property"
       /\ selValue.path = selJSON.path
       /\ selValue.startOffset = selJSON.startOffset
       /\ selValue.endOffset = selJSON.startOffset
       /\ isCollapsed(selValue)

\* the round trip of a reverse, non-collapsed selection of a surface
C15_Witness ==
  /\ roundTrip
  /\ sel.reverse
  /\ sel.surfaceId = "body"
  /\ sel.startOffset < sel.endOffset
  /\ selValue = sel

\* the fields of a selection that the constructor sets
fieldsOf(s) == <<s.path, s.startOffset, s.endOffset, s.reverse>>

\* the writes through the coordinate objects, the assignments to accessors
CoordinateWrites ==
  {"start.offset =", "end.offset =", "start.path =", "end.path ="}
Assignments == {"start =", "end =", "startPath =", "endPath ="}

propertyIndices == { i \in 1..Len(surface) : hasDataPath(surface[i]) }

\* the anchor of the window's selection lies in a child of the surface that
\* is no property element, and the surface has a property element
anchorOutsideProperties ==
  /\ wSel.rangeCount > 0
  /\ ~isSurface(wSel.anchorNode)
  /\ ~hasDataPath(surface[wSel.anchorNode.index])
  /\ propertyIndices # {}

\* the property elements after and before the anchor
propertiesAfter == { i \in propertyIndices : i > wSel.anchorNode.index }
propertiesBefore == { i \in propertyIndices : i < wSel.anchorNode.index }

\* the smallest and the largest of a set of indices
first(indices) == CHOOSE i \in indices : \A j \in indices : i <= j
last(indices) == CHOOSE i \in indices : \A j \in indices : i >= j

\* the start and the end of the property element at index i
startOfProperty(i) == Coordinate(surface[i].dataPath, 0)
endOfProperty(i) == Coordinate(surface[i].dataPath, Len(surface[i].textContent))

\* the property element the search locates: the first one after the anchor,
\* or the last one when none follows
located ==
  IF propertiesAfter # {} THEN first(propertiesAfter) ELSE last(propertyIndices)

\* the coordinate the search is to return for a direction
boundaryFor(direction) ==
  IF direction = "left"
    THEN IF located = first(propertyIndices) THEN startOfProperty(located)
         ELSE endOfProperty(last({ i \in propertyIndices : i < located }))
  ELSE IF propertiesAfter # {} THEN startOfProperty(located)
  ELSE endOfProperty(located)

\* C17: for a DOM position outside every property element
\* _searchForCoordinate returns a coordinate at a property boundary,
\* whatever the DOM offset: with direction 'right' or none the start of the
\* first property after the position, or the end of the last property when
\* none follows; with direction 'left' the end of the property before the
\* located one, or the start of the first property when the located one is
\* the first
C17_AsClaimed ==
  (domOp = "_searchForCoordinate" /\ anchorOutsideProperties) =>
    domResult = boundaryFor(directionOf(domOptions))

\* what _searchForCoordinate returns there: the path is the one of that
\* boundary, the offset is the DOM offset passed in
searchReturnsOffsetPassed ==
  (domOp = "_searchForCoordinate" /\ anchorOutsideProperties) =>
    /\ domResult.path = boundaryFor(directionOf(domOptions)).path
    /\ domResult.offset = wSel.anchorOffset

\* mapDOMSelection was applied to a collapsed selection that lies outside
\* every property element, between two of them
mappedBetweenProperties ==
  /\ domOp = "mapDOMSelection"
  /\ anchorOutsideProperties
  /\ wSelIsCollapsed(wSel)
  /\ propertiesBefore # {}
  /\ propertiesAfter # {}

\* C18: mapDOMSelection passes the direction hint on: for a collapsed DOM
\* selection outside every property element the range returned for
\* direction 'left' is the coordinate resolved with 'left', in the previous
\* property, and differs from the range returned for 'right' or no hint
C18_AsClaimed ==
  (mappedBetweenProperties /\ directionOf(domOptions) = "left") =>
    LET coor == getCoordinate(surface, wSel.anchorNode, wSel.anchorOffset,
                              domOptions)
    IN /\ domResult = createRange(coor, coor, FALSE)
       /\ domResult.start.path = surface[last(propertiesBefore)].dataPath
       /\ domResult # mapDOMSelection(surface, wSel, "direction" :> "right")
       /\ domResult # mapDOMSelection(surface, wSel, emptyObject)

\* what mapDOMSelection returns there: the range of _getRange, which is
\* resolved without the options, whatever the direction
mapIgnoresDirection ==
  mappedBetweenProperties =>
    domResult = getRange(surface, wSel.anchorNode, wSel.anchorOffset,
                         wSel.focusNode, wSel.focusOffset)

\* mapDOMSelection was applied to a selection whose anchor is the surface
mappedOnSurface ==
  /\ domOp = "mapDOMSelection"
  /\ wSel.rangeCount > 0
  /\ isSurface(wSel.anchorNode)

\* the property elements the DOM range spans
spannedProperties ==
  LET props == clonedProperties(surface, getRangeAt(wSel))
  IN { props[k] : k \in 1..Len(props) }

\* C19: when the anchor node of the DOM selection is the surface element,
\* mapDOMSelection returns, without an error, the range from the start of
\* the first spanned property to the end of the last one, not reversed, and
\* null when no property is spanned
C19_AsClaimed ==
  mappedOnSurface =>
    IF spannedProperties = {} THEN domResult = null
    ELSE domResult = Range(startOfProperty(first(spannedProperties)),
                           endOfProperty(last(spannedProperties)), FALSE)

\* what mapDOMSelection returns there: null when no property is spanned and
\* the surface has a property element or the selection is not collapsed,
\* else the TypeError of reading from this.doc or from elements[0]
mapOnSurfaceThrows ==
  mappedOnSurface =>
    IF spannedProperties = {} /\ (propertyIndices # {} \/ ~wSelIsCollapsed(wSel))
      THEN domResult = null
      ELSE domResult = TypeError


(***************************************************************************)
(* Direction independence of merge                                         *)
(***************************************************************************)

\* what a merge leaves behind: the document, the container, the annotations
\* and the selection of the returned args
mergeState(d, nodes, annos, selection) ==
  [doc |-> d, containerNodes |-> nodes, annotations |-> annos,
   selection |-> selection]

\* one call of _mergeTextNodes applied to what the merge has left so far
applyCall(st, call) ==
  CASE call.op = "update" ->
         [st EXCEPT !.doc = txUpdate(st.doc, call.path, call.offset, call.value)]
    [] call.op = "transferAnnotations" ->
         [st EXCEPT !.annotations = transferAnnotations(st.annotations, call.path,
                                      call.offset, call.newPath, call.newOffset)]
    [] call.op = "hide" ->
         [st EXCEPT !.containerNodes = hide(st.containerNodes, call.id)]
    [] call.op = "delete" ->
         [st EXCEPT !.doc = txDelete(st.doc, call.id)]
    [] call.op = "createSelection" ->
         [st EXCEPT !.selection = createSelection(call.json)]

\* the calls of _mergeTextNodes applied in their order
RECURSIVE applyCalls(_, _)
applyCalls(st, program) ==
  IF program = <<>> THEN st
  ELSE applyCalls(applyCall(st, Head(program)), Tail(program))

\* merge(tx, a) as one function of the document, the container and the
\* annotations it starts from
merged(d, nodes, annos, a) ==
  LET initial == mergeState(d, nodes, annos, selectionOf(a))
      pair == addressPair(d, nodes, a)
      ext == extend(a, [containerId |-> containerIdOf(a),
                        firstAddress |-> pair[1],
                        secondAddress |-> pair[2]])
      firstNode == getChildAt(d, nodes, pair[1][1])
      secondNode == getChildAt(d, nodes, pair[2][1])
      trafo == mergeComponents(d, nodes, ext)
      nodeArgs == extend(ext, [containerId |-> ext.containerId,
                               first |-> firstNode,
                               second |-> secondNode])
      componentArgs == extend(ext, [node |-> firstNode,
                                    firstAddress |-> pair[1],
                                    secondAddress |-> pair[2]])
  IN  IF insufficientArguments(a)
        THEN Error("Insufficient arguments! mandatory fields: containerId, path, direction")
        ELSE IF pair = noAddress
          THEN initial
          ELSE CASE trafo.kind = "mergeTextNodes" ->
                      applyCalls(initial, mergeTextNodes(nodeArgs))
                 [] trafo.kind = "merger" ->
                      [initial EXCEPT !.selection =
                         selectionOf(returnArgs(a, registeredMerger(trafo, nodeArgs)))]
                 [] trafo.kind = "componentMerger" ->
                      [initial EXCEPT !.selection =
                         selectionOf(returnArgs(a, registeredMerger(trafo, componentArgs)))]
                 [] OTHER ->
                      [initial EXCEPT !.selection = selectionOf(returnArgs(a, ext))]

\* the path of the component at an address of the container
pathAt(d, nodes, address) ==
  <<nodes[address[1]],
    getAddressablePropertyNames(d[nodes[address[1]]].type)[address[2]]>>

\* the pair of addresses the call handed to the strategy
calledPair == addressPair(pre.doc, pre.containerNodes, args)

\* the call was a merge to the left or to the right that found the other unit
calledOnPair ==
  /\ calledWithFields
  /\ ~insufficientArguments(args)
  /\ directionOf(args) \in {"left", "right"}
  /\ calledPair # noAddress

\* the same call made from the other unit of the pair in the opposite
\* direction
mirrored ==
  IF directionOf(args) = "right"
    THEN [args EXCEPT !["path"] = pathAt(pre.doc, pre.containerNodes, calledPair[2]),
                      !["direction"] = "left"]
    ELSE [args EXCEPT !["path"] = pathAt(pre.doc, pre.containerNodes, calledPair[1]),
                      !["direction"] = "right"]

\* a returned merge left what merged computes for its arguments
mergedAsStepped ==
  pc = "returned" =>
    mergeState(doc, containerNodes, annotations, selectionOf(ret)) =
      merged(pre.doc, pre.containerNodes, pre.annotations, args)

\* C20: a merge to the right from the earlier unit A of two adjacent units
\* and a merge to the left from the later unit B hand the same ordered pair
\* (A, B) to the strategy, and from the same document both leave the same
\* document, container order, annotations and resulting selection
C20_DirectionIndependence ==
  calledOnPair =>
    /\ addressPair(pre.doc, pre.containerNodes, mirrored) = calledPair
    /\ calledPair[1] = getAddress(pre.doc, pre.containerNodes,
                          IF directionOf(args) = "right" THEN args.path
                                                         ELSE mirrored.path)
    /\ calledPair[2] = getAddress(pre.doc, pre.containerNodes,
                          IF directionOf(args) = "left" THEN args.path
                                                        ELSE mirrored.path)
    /\ pc = "returned" =>
         mergeState(doc, containerNodes, annotations, selectionOf(ret)) =
           merged(pre.doc, pre.containerNodes, pre.annotations, mirrored)

\* a merge to the left joined the texts of two nodes and returned
C20_Witness ==
  /\ calledOnPair
  /\ textMergeReturned
  /\ directionOf(args) = "left"
  /\ ~documentUnchanged
  /\ Len(pre.containerNodes) = Len(containerNodes) + 1

(***************************************************************************)
(* The selection of a merge that changes nothing                           *)
(***************************************************************************)

\* merge resolved two components of one node
calledOnOneNode ==
  /\ calledWithNeighbour
  /\ firstNodeCalled.id = secondNodeCalled.id

\* the registered behavior has a component merger for the type
registeredComponentMerger(type) ==
  /\ hasOwnProperty(args, "editingBehavior")
  /\ type \in args.editingBehavior.componentMergers

\* the call is one of the four that change nothing: no neighbour, a
\* direction other than 'left' and 'right', two components of one node
\* without a component merger, two nodes without a strategy
calledWithoutEffect ==
  \/ calledAtBoundary
  \/ calledOnOneNode /\ ~registeredComponentMerger(firstNodeCalled.type)
  \/ calledOnTwoNodes /\ noStrategyApplies

\* C21: a merge that makes no structural change (no neighbour, unsupported
\* direction, one node without a component merger, two nodes without a
\* strategy) returns args whose selection is the value the caller passed:
\* a supplied selection is neither replaced nor cleared, a missing one
\* stays undefined
C21_NoOpKeepsSelection ==
  calledWithoutEffect =>
    /\ pc = "returned"
    /\ calls = <<>>
    /\ documentUnchanged
    /\ selectionOf(ret) = selectionOf(args)
    /\ hasOwnProperty(args, "selection") =>
         /\ hasOwnProperty(ret, "selection")
         /\ ret.selection = args.selection
         /\ ret.selection # undefined

\* two components of one node, no component merger registered for its type,
\* and a selection supplied by the caller
C21_Witness ==
  /\ calledOnOneNode
  /\ ~registeredComponentMerger(firstNodeCalled.type)
  /\ hasOwnProperty(args, "editingBehavior")
  /\ hasOwnProperty(args, "selection")
  /\ args.selection.type = "property"
  /\ mergeTrafo = noTrafo
  /\ pc = "returned"

====
